---- MODULE Spec2Model ----
(***************************************************************************)
(* Model of armnn_to_perfetto.py: the recursive walk extract_events, the   *)
(* recognizer predicates, the trace assembler generate_perfetto_trace and  *)
(* the script entry point that binds the global flow_id counter.           *)
(*                                                                         *)
(* A parsed JSON value is a record [t, n, items]:                          *)
(*   t = "num"   n is the number                                           *)
(*   t = "str"   n is the length of the string                             *)
(*   t = "null"                                                            *)
(*   t = "list"  items[i].v is the i-th element (items[i].k is "")         *)
(*   t = "dict"  items[i] is the i-th key/value pair [k, v], in the        *)
(*               mapping's insertion order                                 *)
(***************************************************************************)
EXTENDS Integers, Sequences, FiniteSets, TLC

VARIABLES mode, pc, doc, emit_flows, use_beg_end, flow_id_bound, flow_id,
          output, err, kernels_total

vars == <<mode, pc, doc, emit_flows, use_beg_end, flow_id_bound, flow_id,
          output, err, kernels_total>>

\* ------------------------------------------------------------- bounds
\* Longest run of extra entries (kernels, plain keys) in one span body.
MaxKernels == 2
\* Kernel durations are 50 * i for i in 1..MaxDur.
MaxDur == 2

\* ------------------------------------------------------------- JSON values
Num(x) == [t |-> "num", n |-> x, items |-> <<>>]
Str(len) == [t |-> "str", n |-> len, items |-> <<>>]
Null == [t |-> "null", n |-> 0, items |-> <<>>]
List(vs) == [t |-> "list", n |-> 0,
             items |-> [i \in 1..Len(vs) |-> [k |-> "", v |-> vs[i]]]]
Dict(kvs) == [t |-> "dict", n |-> 0, items |-> kvs]
KV(key, val) == [k |-> key, v |-> val]

\* ------------------------------------------------------------- keys
StartKey == "Wall clock time (Start)"
StartKey2 == "Wall clock time (Start) #2"
StopKey == "Wall clock time (Stop)"
KernelKeys == << "OpenClKernelTimer/0: baz GWS[1,1,1] LWS[1,1,1] #1",
                 "OpenClKernelTimer/1: gemm_mm_reshaped_only_rhs_nt_mmul_texture GWS[8,8,1] #2",
                 "OpenClKernelTimer/2: softmax",
                 "OpenClKernelTimer/3" >>
PlainKeys == << "Plain/0", "Plain/1", "Plain/2", "Plain/3" >>

\* str.startswith over the keys of the model's documents.
StartsWith(k, prefix) ==
    CASE prefix = "Wall clock time (Start)" -> k \in {StartKey, StartKey2}
      [] prefix = "Wall clock time (Stop)" -> k = StopKey
      [] prefix = "OpenClKernelTimer/" -> \E i \in 1..Len(KernelKeys) : k = KernelKeys[i]
      [] OTHER -> FALSE

\* re.search(r":\s*([^\s]+)", key): group 1, or the key itself without a match.
CleanName(k) ==
    CASE k = KernelKeys[1] -> "baz"
      [] k = KernelKeys[2] -> "gemm_mm_reshaped_only_rhs_nt_mmul_texture"
      [] k = KernelKeys[3] -> "softmax"
      [] OTHER -> k

\* "gemm_mm_reshaped_only_rhs_nt_mmul_texture" in kernel_name
IsGemmName(name) == name = "gemm_mm_reshaped_only_rhs_nt_mmul_texture"

\* ------------------------------------------------------------- mapping access
HasKey(d, key) == \E i \in 1..Len(d.items) : d.items[i].k = key
Get(d, key) == d.items[CHOOSE i \in 1..Len(d.items) : d.items[i].k = key].v

\* next(x for x in v if x.startswith(prefix)): the first matching key
FirstKey(v, prefix) ==
    LET I == {i \in 1..Len(v.items) : StartsWith(v.items[i].k, prefix)}
    IN v.items[CHOOSE i \in I : \A j \in I : i <= j].k

\* ------------------------------------------------------------- recognizers
is_wall_clock_span(d) ==
    /\ d.t = "dict"
    /\ \E i \in 1..Len(d.items) : StartsWith(d.items[i].k, "Wall clock time (Start)")
    /\ \E i \in 1..Len(d.items) : StartsWith(d.items[i].k, "Wall clock time (Stop)")

\* The conjuncts of is_kernel_measurement before v["raw"][0] is read.
KernelShape(k, v) ==
    /\ v.t = "dict"
    /\ StartsWith(k, "OpenClKernelTimer/")
    /\ HasKey(v, "raw")
    /\ Get(v, "raw").t = "list"

\* is_kernel_measurement raises IndexError: v["raw"][0] of an empty list.
is_kernel_measurement_raises(k, v) ==
    KernelShape(k, v) /\ Len(Get(v, "raw").items) = 0

is_kernel_measurement(k, v) ==
    /\ KernelShape(k, v)
    /\ Len(Get(v, "raw").items) > 0
    /\ Get(v, "raw").items[1].v.t = "num"

\* m["raw"][0] as a bare subscript chain: [err, val], err = "" when it succeeds.
Raw0(m) ==
    IF m.t # "dict" THEN [err |-> "TypeError", val |-> Null]
    ELSE IF ~HasKey(m, "raw") THEN [err |-> "KeyError", val |-> Null]
    ELSE LET r == Get(m, "raw") IN
         CASE r.t = "list" ->
                IF Len(r.items) = 0 THEN [err |-> "IndexError", val |-> Null]
                ELSE [err |-> "", val |-> r.items[1].v]
           [] r.t = "str" ->
                IF r.n = 0 THEN [err |-> "IndexError", val |-> Null]
                ELSE [err |-> "", val |-> Str(1)]
           [] r.t = "dict" -> [err |-> "KeyError", val |-> Null]
           [] OTHER -> [err |-> "TypeError", val |-> Null]

\* ------------------------------------------------------------- events
NoEvent == [ph |-> "", name |-> "", cat |-> "", ts |-> 0, dur |-> 0, pid |-> 0,
            tid |-> 0, id |-> 0, parent |-> "", raw_name |-> "", label |-> ""]

ParentEvent(name, start_us, dur_us, pid, tid_base) ==
    [NoEvent EXCEPT !.name = name, !.cat = "armnn", !.ph = "X", !.ts = start_us,
                    !.dur = dur_us, !.pid = pid, !.tid = tid_base]

KernelCat(kernel_name) ==
    IF IsGemmName(kernel_name) THEN "opencl.gemm_mm" ELSE "opencl.kernel"

KernelTid(cat) == IF cat = "opencl.gemm_mm" THEN 1 ELSE 2

ChildEvent(name, sub_k, kernel_start, duration, pid) ==
    LET kernel_name == CleanName(sub_k)
        cat == KernelCat(kernel_name)
    IN [NoEvent EXCEPT !.name = kernel_name, !.cat = cat, !.ph = "X",
                       !.ts = kernel_start, !.dur = duration, !.pid = pid,
                       !.tid = KernelTid(cat), !.parent = name, !.raw_name = sub_k]

FlowStart(id, start_us, tid_base, pid) ==
    [NoEvent EXCEPT !.ph = "s", !.id = id, !.ts = start_us, !.tid = tid_base,
                    !.pid = pid, !.cat = "flow"]

FlowEnd(id, kernel_start, tid, pid) ==
    [NoEvent EXCEPT !.ph = "f", !.id = id, !.ts = kernel_start, !.tid = tid,
                    !.pid = pid, !.cat = "flow"]

thread_metadata_Three ==
    << [NoEvent EXCEPT !.ph = "M", !.name = "process_name", !.label = "ArmNN Trace"],
       [NoEvent EXCEPT !.ph = "M", !.tid = 1, !.name = "thread_name",
                       !.label = "GEMM MM Kernels"],
       [NoEvent EXCEPT !.ph = "M", !.tid = 2, !.name = "thread_name",
                       !.label = "Other OpenCL Kernels"] >>
thread_metadata ==
    << [NoEvent EXCEPT !.ph = "M", !.name = "process_name", !.label = "ArmNN Trace"],
       [NoEvent EXCEPT !.ph = "M", !.name = "thread_name", !.label = "ArmNN Top-Level"],
       [NoEvent EXCEPT !.ph = "M", !.tid = 1, !.name = "thread_name",
                       !.label = "GEMM MM Kernels"],
       [NoEvent EXCEPT !.ph = "M", !.tid = 2, !.name = "thread_name",
                       !.label = "Other OpenCL Kernels"] >>

\* ------------------------------------------------------------- the walk
\* The walk threads st = [ev, fid, bound, err]: trace_events, the global
\* flow_id and whether it is bound, and the exception raised ("" = none).
Raise(st, e) == [st EXCEPT !.err = e]

\* Lines 124-140: the flow arrows of one kernel, both carrying flow_id.
FlowEvents_NoEnd(fid, start_us, ks, tid) == << FlowStart(fid, start_us, 0, 0) >>
FlowEvents(fid, start_us, ks, tid) ==
    << FlowStart(fid, start_us, 0, 0), FlowEnd(fid, ks, tid, 0) >>

\* Line 142: kernel_start += duration
Advance_Stuck(ks, duration) == ks
Advance(ks, duration) == ks + duration

\* Line 143: flow_id += 1
NextFlowId_Stuck(fid) == fid
NextFlowId(fid) == fid + 1

\* One iteration of `for sub_k, sub_v in v.items()` (lines 87-143); returns
\* [st, ks]: the threaded state and kernel_start.  An unbound flow_id is a
\* NameError where it is first read: line 127 with flows, line 143 without.
KernelStep(name, start_us, sub_k, sub_v, st, ks, flows) ==
    IF is_kernel_measurement_raises(sub_k, sub_v)
    THEN [st |-> Raise(st, "IndexError"), ks |-> ks]
    ELSE IF ~is_kernel_measurement(sub_k, sub_v) THEN [st |-> st, ks |-> ks]
    ELSE
      LET duration == Get(sub_v, "raw").items[1].v.n
          child == ChildEvent(name, sub_k, ks, duration, 0)
          st1 == [st EXCEPT !.ev = Append(@, child)]
      IN IF ~st.bound
         THEN [st |-> Raise(st1, "NameError"), ks |-> ks]
         ELSE LET st2 == IF flows
                         THEN [st1 EXCEPT !.ev = @ \o FlowEvents(st.fid, start_us, ks,
                                                                 child.tid)]
                         ELSE st1
              IN [st |-> [st2 EXCEPT !.fid = NextFlowId(@)],
                  ks |-> Advance(ks, duration)]

RECURSIVE KernelLoop(_, _, _, _, _, _, _)
KernelLoop(name, start_us, items, j, st, ks, flows) ==
    IF j > Len(items) \/ st.err # "" THEN st
    ELSE LET r == KernelStep(name, start_us, items[j].k, items[j].v, st, ks, flows)
         IN KernelLoop(name, start_us, items, j + 1, r.st, r.ks, flows)

\* Lines 86-143: kernel_start = start_us, then the loop over the span's pairs.
SpanKernels_Twice(k, v, st, start_us, flows) ==
    KernelLoop(k, start_us, v.items, 1,
               KernelLoop(k, start_us, v.items, 1, st, start_us, flows),
               start_us, flows)
SpanKernels(k, v, st, start_us, flows) ==
    KernelLoop(k, start_us, v.items, 1, st, start_us, flows)

\* Lines 69-143: the span branch up to, not including, the recursion of line 145.
SpanStep(k, v, st, flows) ==
    LET a == Raw0(Get(v, FirstKey(v, "Wall clock time (Start)")))
        b == Raw0(Get(v, FirstKey(v, "Wall clock time (Stop)")))
    IN IF a.err # "" THEN Raise(st, a.err)
       ELSE IF b.err # "" THEN Raise(st, b.err)
       ELSE IF a.val.t # "num" \/ b.val.t # "num" THEN Raise(st, "TypeError")
       ELSE LET start_us == a.val.n
                dur_us == b.val.n - start_us
                st1 == [st EXCEPT !.ev = Append(@, ParentEvent(k, start_us, dur_us, 0, 0))]
            IN SpanKernels(k, v, st1, start_us, flows)

RECURSIVE extract_events(_, _, _)
RECURSIVE WalkItems(_, _, _, _, _)

\* The loops of lines 67-147 (mapping) and 149-150 (sequence) from index i.
WalkItems(isdict, items, i, st, flows) ==
    IF i > Len(items) \/ st.err # "" THEN st
    ELSE LET v == items[i].v
             st1 == IF isdict /\ is_wall_clock_span(v)
                    THEN SpanStep(items[i].k, v, st, flows)
                    ELSE st
         IN WalkItems(isdict, items, i + 1, extract_events(v, st1, flows), flows)

extract_events_Self(obj, st, flows) ==
    IF st.err # "" THEN st
    ELSE IF obj.t = "dict"
         THEN WalkItems(TRUE, obj.items, 1,
                        IF is_wall_clock_span(obj) THEN SpanStep("", obj, st, flows) ELSE st,
                        flows)
    ELSE IF obj.t = "list" THEN WalkItems(FALSE, obj.items, 1, st, flows)
    ELSE st

\* Lines 66-150: only the values of a mapping's keys are tested for spans.
extract_events(obj, st, flows) ==
    IF st.err # "" THEN st
    ELSE IF obj.t = "dict" THEN WalkItems(TRUE, obj.items, 1, st, flows)
    ELSE IF obj.t = "list" THEN WalkItems(FALSE, obj.items, 1, st, flows)
    ELSE st

\* generate_perfetto_trace after clean_json_text: the walk from an empty
\* trace_events, then the file's traceEvents (written only without exception).
Convert(data, flows, bound, fid) ==
    LET st == extract_events(data, [ev |-> <<>>, fid |-> fid, bound |-> bound, err |-> ""],
                             flows)
    IN [err |-> st.err, fid |-> st.fid,
        out |-> IF st.err = "" THEN thread_metadata \o st.ev ELSE <<>>]

\* ------------------------------------------------------------- input documents
SeqsUpTo(S, n) == UNION {[1..m -> S] : m \in 0..n}

Durations == {50 * i : i \in 1..MaxDur}

\* A well-formed measurement {"raw": [x]}.
Meas(x) == Dict(<<KV("raw", List(<<Num(x)>>))>>)

\* Malformed measurements: not a mapping, no raw, raw not a sequence, raw empty,
\* raw[0] not a number.
NotMapping == Num(7)
NoRaw == Dict(<<>>)
RawNotList == Dict(<<KV("raw", Num(7))>>)
RawEmpty == Dict(<<KV("raw", List(<<>>))>>)
RawNonNumeric == Dict(<<KV("raw", List(<<Str(1)>>))>>)
Malformed == {NotMapping, NoRaw, RawNotList, RawEmpty, RawNonNumeric}

\* Position i of a span body holds its own key, so keys are unique in a mapping.
KernelEntries(ds) == [i \in 1..Len(ds) |-> KV(KernelKeys[i], Meas(ds[i]))]
SimpleExtras == {KernelEntries(ds) : ds \in SeqsUpTo(Durations, MaxKernels)}

SlotValues == [kind : {"kernel"}, v : {Meas(x) : x \in Durations} \cup Malformed]
              \cup [kind : {"plain"}, v : {Meas(50)}]
SlotEntries(ss) ==
    [i \in 1..Len(ss) |->
        KV(IF ss[i].kind = "kernel" THEN KernelKeys[i] ELSE PlainKeys[i], ss[i].v)]
FullExtras == {SlotEntries(ss) : ss \in SeqsUpTo(SlotValues, MaxKernels)}

Body(startv, stopv, extras) ==
    Dict(<<KV(StartKey, startv), KV(StopKey, stopv)>> \o extras)
BodyLate(startv, stopv, extras) ==
    Dict(extras \o <<KV(StopKey, stopv), KV(StartKey, startv)>>)
GoodBody(extras) == Body(Meas(100), Meas(200), extras)
OneKernel == <<KV(KernelKeys[1], Meas(50))>>
TwoKernels == <<KV(KernelKeys[1], Meas(50)), KV(KernelKeys[2], Meas(100))>>
\* The kernels of the second span of a document with two spans.
FewExtras == {<<>>, OneKernel, TwoKernels}

\* One keyed span, every mix of well-formed and malformed entries.
DocsOneSpan ==
    {Dict(<<KV("Foo", GoodBody(x))>>) : x \in FullExtras}
    \cup {Dict(<<KV("Foo", BodyLate(Meas(100), Meas(200), x))>>) : x \in SimpleExtras}

\* A span-shaped node with a malformed start or stop measurement, beside a good span.
DocsBadSpan ==
    UNION {{Dict(<<KV("Bad", Body(m, Meas(200), OneKernel)), KV("Foo", GoodBody(OneKernel))>>),
            Dict(<<KV("Foo", GoodBody(OneKernel)), KV("Bad", Body(m, Meas(200), OneKernel))>>),
            Dict(<<KV("Bad", Body(Meas(100), m, OneKernel)), KV("Foo", GoodBody(OneKernel))>>),
            Dict(<<KV("Foo", GoodBody(OneKernel)), KV("Bad", Body(Meas(100), m, OneKernel))>>)}
           : m \in Malformed}

\* Two sibling spans; a span nested in a span; spans below a sequence.
DocsTwoSpans ==
    {Dict(<<KV("Foo", GoodBody(x)), KV("Bar", Body(Meas(300), Meas(250), y))>>)
       : x \in SimpleExtras, y \in FewExtras}
DocsNested ==
    {Dict(<<KV("Foo", GoodBody(x \o <<KV("Inner", Body(Meas(120), Meas(180), y))>>))>>)
       : x \in SimpleExtras, y \in FewExtras}
    \cup {Dict(<<KV("Layers", List(<<Dict(<<KV("Foo", GoodBody(x))>>),
                                     Dict(<<KV("Bar", GoodBody(y))>>)>>))>>)
            : x \in SimpleExtras, y \in FewExtras}

\* A span-shaped mapping that is the root, or a direct element of a sequence.
DocsUnkeyed ==
    {GoodBody(x) : x \in SimpleExtras}
    \cup {GoodBody(x \o <<KV("Inner", Body(Meas(120), Meas(180), y))>>)
            : x \in SimpleExtras, y \in FewExtras}
    \cup {List(<<GoodBody(x), Dict(<<KV("Foo", GoodBody(y))>>)>>)
            : x \in SimpleExtras, y \in FewExtras}

\* Two start keys (the first one met is used); a kernel entry that is a span itself.
DocsOdd ==
    {Dict(<<KV("Foo", Dict(<<KV(StartKey2, Meas(300)), KV(StartKey, Meas(100)),
                             KV(StopKey, Meas(400))>> \o x))>>) : x \in SimpleExtras}
    \cup {Dict(<<KV("Foo", GoodBody(
              <<KV(KernelKeys[1], Dict(<<KV("raw", List(<<Num(50)>>)),
                                         KV(StartKey, Meas(110)),
                                         KV(StopKey, Meas(130)),
                                         KV(KernelKeys[2], Meas(50))>>))>>))>>)}

\* Documents without any span-shaped mapping.
DocsNoSpan ==
    {Dict(<<>>), List(<<>>), List(<<Num(1), Str(3), Null>>),
     Dict(<<KV("Foo", Num(7))>>),
     Dict(<<KV(KernelKeys[1], Meas(50))>>),
     Dict(<<KV(KernelKeys[1], RawEmpty)>>),
     Dict(<<KV("Foo", Dict(<<KV(StartKey, Meas(100))>> \o OneKernel))>>),
     Dict(<<KV("Foo", Dict(<<KV(StopKey, Meas(200))>> \o OneKernel))>>),
     Dict(<<KV("Foo", Dict(<<KV(StartKey, NoRaw), KV(KernelKeys[1], RawEmpty)>>))>>),
     Dict(<<KV("Foo", List(<<Meas(50), Dict(<<KV(KernelKeys[2], Meas(100))>>)>>))>>),
     List(<<Dict(<<KV(KernelKeys[1], Meas(50))>>), List(<<Null>>)>>)}

Docs == DocsOneSpan \cup DocsBadSpan \cup DocsTwoSpans \cup DocsNested
        \cup DocsUnkeyed \cup DocsOdd \cup DocsNoSpan

\* ------------------------------------------------------------- the process
IsKernelEvent(e) == e.cat \in {"opencl.gemm_mm", "opencl.kernel"}
KernelEvents(evs) == SelectSeq(evs, IsKernelEvent)

Init ==
    /\ mode = "none"
    /\ pc = "start"
    /\ doc = Dict(<<>>)
    /\ emit_flows = FALSE
    /\ use_beg_end = "absent"
    /\ flow_id_bound = FALSE
    /\ flow_id = 0
    /\ output = <<>>
    /\ err = ""
    /\ kernels_total = 0

\* python armnn_to_perfetto.py --input .. --output .. [--flows]: lines 181-195
\* down to line 157, where the document is loaded.
Main(d, flows) ==
    /\ pc = "start"
    /\ mode' = "script"
    /\ flow_id_bound' = TRUE
    /\ flow_id' = 1
    /\ doc' = d
    /\ emit_flows' = flows
    /\ pc' = "loaded"
    /\ UNCHANGED <<use_beg_end, output, err, kernels_total>>

\* import armnn_to_perfetto: the __main__ block does not run, flow_id stays unbound.
Import ==
    /\ pc = "start"
    /\ mode' = "module"
    /\ pc' = "idle"
    /\ UNCHANGED <<doc, emit_flows, use_beg_end, flow_id_bound, flow_id, output, err,
                   kernels_total>>

\* A caller's generate_perfetto_trace(input_path, output_path, emit_flows=flows
\* [, use_beg_end=ube]): an unknown keyword is a TypeError before the body runs.
Call(d, flows, ube) ==
    /\ pc = "idle"
    /\ doc' = d
    /\ emit_flows' = flows
    /\ use_beg_end' = ube
    /\ output' = <<>>
    /\ IF ube = "absent"
       THEN pc' = "loaded" /\ err' = ""
       ELSE pc' = "raised" /\ err' = "TypeError"
    /\ UNCHANGED <<mode, flow_id_bound, flow_id, kernels_total>>

\* Lines 158-177: the walk, then the output file.
Extract ==
    /\ pc = "loaded"
    /\ LET r == Convert(doc, emit_flows, flow_id_bound, flow_id)
       IN /\ pc' = IF r.err = "" THEN "returned" ELSE "raised"
          /\ err' = r.err
          /\ output' = r.out
          /\ flow_id' = r.fid
          /\ kernels_total' = kernels_total + Len(KernelEvents(r.out))
    /\ UNCHANGED <<mode, doc, emit_flows, use_beg_end, flow_id_bound>>

\* The importing caller is done with the call (it returned or raised) and may
\* call again; the globals of the module persist.
Finish ==
    /\ mode = "module"
    /\ pc \in {"returned", "raised"}
    /\ pc' = "idle"
    /\ doc' = Dict(<<>>)
    /\ emit_flows' = FALSE
    /\ use_beg_end' = "absent"
    /\ output' = <<>>
    /\ err' = ""
    /\ UNCHANGED <<mode, flow_id_bound, flow_id, kernels_total>>

Next ==
    \/ \E d \in Docs, flows \in BOOLEAN : Main(d, flows)
    \/ Import
    \/ \E d \in Docs, flows \in BOOLEAN, ube \in {"absent", "True", "False"} :
          Call(d, flows, ube)
    \/ Extract
    \/ Finish

Spec == Init /\ [][Next]_vars

\* ------------------------------------------------------------- vocabulary of the properties
Terminal == pc \in {"returned", "raised"}

\* The spans of a document in discovery order: every value of a mapping key
\* that is span-shaped, parent before the spans nested in it.
RECURSIVE Spans(_)
RECURSIVE SpansFrom(_, _, _)
SpansFrom(isdict, items, i) ==
    IF i > Len(items) THEN <<>>
    ELSE (IF isdict /\ is_wall_clock_span(items[i].v)
          THEN <<[name |-> items[i].k, node |-> items[i].v]>> ELSE <<>>)
         \o Spans(items[i].v) \o SpansFrom(isdict, items, i + 1)
Spans(obj) ==
    IF obj.t \in {"dict", "list"} THEN SpansFrom(obj.t = "dict", obj.items, 1) ELSE <<>>

\* Every span-shaped mapping of a document, keyed or not (the root and the
\* elements of sequences included).
RECURSIVE SpanShaped(_)
RECURSIVE SpanShapedFrom(_, _)
SpanShapedFrom(items, i) ==
    IF i > Len(items) THEN <<>>
    ELSE SpanShaped(items[i].v) \o SpanShapedFrom(items, i + 1)
SpanShaped(obj) ==
    (IF is_wall_clock_span(obj) THEN <<[name |-> "", node |-> obj]>> ELSE <<>>)
    \o (IF obj.t \in {"dict", "list"} THEN SpanShapedFrom(obj.items, 1) ELSE <<>>)

\* The kernel measurements directly inside a node, in the node's key order.
IsMeasurementEntry(e) == is_kernel_measurement(e.k, e.v)
Measurements(node) == SelectSeq(node.items, IsMeasurementEntry)
DurationOf(e) == Get(e.v, "raw").items[1].v.n
StartOf(node) == Get(Get(node, FirstKey(node, "Wall clock time (Start)")), "raw").items[1].v.n

RECURSIVE SumDur(_, _)
SumDur(ms, n) == IF n = 0 THEN 0 ELSE SumDur(ms, n - 1) + DurationOf(ms[n])

RECURSIVE CountMeasurements(_, _)
CountMeasurements(spans, i) ==
    IF i > Len(spans) THEN 0
    ELSE Len(Measurements(spans[i].node)) + CountMeasurements(spans, i + 1)

\* What each kernel measurement of the spans should be laid out as.
RECURSIVE Layout(_, _)
Layout(spans, i) ==
    IF i > Len(spans) THEN <<>>
    ELSE LET ms == Measurements(spans[i].node)
         IN [k \in 1..Len(ms) |->
               [span |-> spans[i].name, key |-> ms[k].k, dur |-> DurationOf(ms[k]),
                ts |-> StartOf(spans[i].node) + SumDur(ms, k - 1)]]
            \o Layout(spans, i + 1)

IsFlowEvent(e) == e.ph \in {"s", "f"}
IsNotFlowEvent(e) == ~IsFlowEvent(e)
IsParentEvent(e) == e.cat = "armnn"
FlowsOf(evs) == SelectSeq(evs, IsFlowEvent)

\* ------------------------------------------------------------- C1
\* C1: in a completed conversion the k-th kernel measurement of every span is
\* a complete ("X") event with dur = raw[0] and ts = the span's start_us plus
\* the durations of the measurements before it in the same span.
C1_KernelTimeline ==
    pc = "returned" =>
      LET ks == KernelEvents(output)
          want == Layout(Spans(doc), 1)
      IN /\ Len(ks) = Len(want)
         /\ \A i \in 1..Len(ks) :
              /\ ks[i].ph = "X"
              /\ ks[i].parent = want[i].span
              /\ ks[i].raw_name = want[i].key
              /\ ks[i].dur = want[i].dur
              /\ ks[i].ts = want[i].ts

\* A span starting at 100 whose first kernel lasts 50: events at 100 and 150.
C1_Witness ==
    /\ pc = "returned"
    /\ \E i \in 1..Len(output) - 1 :
         /\ IsKernelEvent(output[i]) /\ IsKernelEvent(output[i + 1])
         /\ output[i].parent = output[i + 1].parent
         /\ output[i].ts = 100 /\ output[i].dur = 50
         /\ output[i + 1].ts = 150

\* ------------------------------------------------------------- C2
\* C2: a conversion with flows either fails exactly when the conversion
\* without flows fails, or produces the events of the conversion without
\* flows plus one "s" and one "f" event per kernel measurement.
C2_FlowsAddTwoPerKernel ==
    (Terminal /\ use_beg_end = "absent" /\ emit_flows) =>
      LET off == Convert(doc, FALSE, flow_id_bound, 1)
          n == CountMeasurements(Spans(doc), 1)
          IsS(e) == e.ph = "s"
          IsF(e) == e.ph = "f"
      IN /\ (pc = "returned") <=> (off.err = "")
         /\ pc = "returned" =>
              /\ SelectSeq(output, IsNotFlowEvent) = off.out
              /\ Len(output) = Len(off.out) + 2 * n
              /\ Len(SelectSeq(output, IsS)) = n
              /\ Len(SelectSeq(output, IsF)) = n

C2_Witness ==
    /\ pc = "returned" /\ emit_flows
    /\ Len(KernelEvents(output)) = 2
    /\ Len(FlowsOf(output)) = 4

\* ------------------------------------------------------------- C3
\* C3: in the event list of a completed conversion with flows, the flow
\* events come in "s"/"f" pairs, one per kernel event, a pair shares its id,
\* the first id is 1, each later pair's id is strictly larger, and no two
\* pairs share an id.
C3_FlowIds ==
    (pc = "returned" /\ emit_flows) =>
      LET fs == FlowsOf(output)
          n == Len(KernelEvents(output))
      IN /\ Len(fs) = 2 * n
         /\ \A i \in 1..n :
              /\ fs[2 * i - 1].ph = "s" /\ fs[2 * i].ph = "f"
              /\ fs[2 * i - 1].id = fs[2 * i].id
         /\ n > 0 => fs[1].id = 1
         /\ \A i \in 1..n - 1 : fs[2 * i + 1].id > fs[2 * i - 1].id
         /\ \A i, j \in 1..n : fs[2 * i].id = fs[2 * j].id => i = j

\* Flow pairs of kernels of two different spans in one document.
C3_Witness ==
    /\ pc = "returned" /\ emit_flows
    /\ \E i, j \in 1..Len(output) :
         /\ output[i].ph = "s" /\ output[j].ph = "s"
         /\ output[i].ts # output[j].ts
         /\ output[i].id = 1 /\ output[j].id > 1

\* ------------------------------------------------------------- C4
\* C4 as stated: the kernel child events of a completed conversion are as
\* many as the kernel measurements directly inside the span-shaped mappings
\* of the input.
C4_AsStated ==
    pc = "returned" =>
      Len(KernelEvents(output)) = CountMeasurements(SpanShaped(doc), 1)

\* C4 amended: every kernel measurement directly inside a span that is the
\* value of a mapping key has exactly one child event in the output of a
\* completed conversion, and there are no other child events.
C4_OneEventPerKeyedMeasurement ==
    pc = "returned" =>
      LET spans == Spans(doc)
          ks == KernelEvents(output)
      IN /\ Len(ks) = CountMeasurements(spans, 1)
         /\ \A i \in 1..Len(spans) :
              \A m \in 1..Len(Measurements(spans[i].node)) :
                 Cardinality({j \in 1..Len(ks) :
                                /\ ks[j].parent = spans[i].name
                                /\ ks[j].raw_name = Measurements(spans[i].node)[m].k}) = 1

\* A span with kernels that has a nested span with kernels: the walk
\* recursed into the span's value after handling its kernels.
C4_Witness ==
    /\ pc = "returned"
    /\ Len(Spans(doc)) = 2
    /\ HasKey(Spans(doc)[1].node, "Inner")
    /\ is_wall_clock_span(Get(Spans(doc)[1].node, "Inner"))
    /\ Len(Measurements(Spans(doc)[1].node)) = 2
    /\ Len(KernelEvents(output)) = 3

\* ------------------------------------------------------------- C5
\* A kernel-prefixed entry that is no well-formed measurement: the value is
\* not a mapping, has no raw, raw is no sequence, raw is empty, or raw[0] is
\* not a number.
WellFormedMeasurement(v) ==
    /\ v.t = "dict"
    /\ HasKey(v, "raw")
    /\ Get(v, "raw").t = "list"
    /\ Len(Get(v, "raw").items) > 0
    /\ Get(v, "raw").items[1].v.t = "num"
IsMalformedKernelEntry(e) ==
    StartsWith(e.k, "OpenClKernelTimer/") /\ ~WellFormedMeasurement(e.v)
IsWellFormedKernelEntry(e) ==
    StartsWith(e.k, "OpenClKernelTimer/") /\ WellFormedMeasurement(e.v)

\* C5: the script's conversion of a document whose one span holds a malformed
\* kernel entry does not raise, emits nothing for the malformed entry and
\* emits every well-formed sibling measurement.
C5_MalformedKernelSkipped ==
    (mode = "script" /\ Terminal /\ doc \in DocsOneSpan
       /\ Len(SelectSeq(Get(doc, "Foo").items, IsMalformedKernelEntry)) > 0) =>
      /\ pc = "returned"
      /\ LET good == SelectSeq(Get(doc, "Foo").items, IsWellFormedKernelEntry)
             ks == KernelEvents(output)
         IN /\ Len(ks) = Len(good)
            /\ \A i \in 1..Len(ks) : ks[i].raw_name = good[i].k

\* ------------------------------------------------------------- C6
\* C6: the script's conversion of a document holding a node with start and
\* stop keys, one of them malformed, beside a well-formed span, does not
\* raise, emits no parent event for the bad node and emits the well-formed
\* span with its kernel.
C6_MalformedSpanSkipped ==
    (mode = "script" /\ Terminal /\ doc \in DocsBadSpan) =>
      /\ pc = "returned"
      /\ \A i \in 1..Len(output) : output[i].name # "Bad"
      /\ \E i \in 1..Len(output) : IsParentEvent(output[i]) /\ output[i].name = "Foo"
      /\ \E i \in 1..Len(output) : IsKernelEvent(output[i]) /\ output[i].parent = "Foo"

C8_BeginEndPairs ==
    (Terminal /\ use_beg_end = "True" /\ ~emit_flows
       /\ doc = Dict(<<KV("Foo", GoodBody(OneKernel))>>)) =>
      /\ pc = "returned"
      /\ LET IsB(e) == e.ph = "B"
             IsE(e) == e.ph = "E"
             bs == SelectSeq(output, IsB)
         IN /\ Len(bs) = 2
            /\ Len(SelectSeq(output, IsE)) = 2
            /\ Len(SelectSeq(output, IsNotFlowEvent)) = Len(thread_metadata) + 4
            /\ \A i \in 1..Len(bs) : bs[i].ts = 100

\* ------------------------------------------------------------- C9
\* C9: whenever a conversion has started, the flow-id counter exists and is
\* 1 plus the number of kernel measurements the process has converted.
C9_ProcessWideCounter ==
    (pc \in {"loaded", "returned"}) =>
      flow_id_bound /\ flow_id = 1 + kernels_total

\* ------------------------------------------------------------- C10
\* C10: in a completed conversion the parent events are exactly the spans
\* that are values of mapping keys, in discovery order, and every kernel
\* child event is a kernel measurement directly inside such a span; a
\* span-shaped root or sequence element adds no parent event and none of its
\* kernel measurements adds a child event.
C10_OnlyKeyedSpans ==
    pc = "returned" =>
      LET spans == Spans(doc)
          ps == SelectSeq(output, IsParentEvent)
          ks == KernelEvents(output)
          roots == IF doc.t = "list" THEN [i \in 1..Len(doc.items) |-> doc.items[i].v]
                   ELSE <<doc>>
      IN /\ Len(ps) = Len(spans)
         /\ \A i \in 1..Len(ps) : ps[i].name = spans[i].name
         /\ \A j \in 1..Len(ks) :
              \E i \in 1..Len(spans) :
                 /\ ks[j].parent = spans[i].name
                 /\ \E m \in 1..Len(spans[i].node.items) :
                      /\ spans[i].node.items[m].k = ks[j].raw_name
                      /\ is_kernel_measurement(ks[j].raw_name, spans[i].node.items[m].v)
         /\ (Len(spans) = 0 /\ \E r \in 1..Len(roots) : is_wall_clock_span(roots[r]))
              => Len(output) = 4

\* A span-shaped root with two kernel measurements and no span below it:
\* the output holds the metadata only.
C10_Witness ==
    /\ pc = "returned"
    /\ is_wall_clock_span(doc)
    /\ Len(Measurements(doc)) = 2
    /\ Len(Spans(doc)) = 0
    /\ Len(output) = 4

====
